---- MODULE Spec2Model ----
(***************************************************************************)
(* Klex: the layer computation graph (layer_graph.rs), the Layer contract  *)
(* and the primitive layers (layer.rs) and the element model (element.rs). *)
(*                                                                         *)
(* Node indices are 0-based as in petgraph; TLA+ sequences are 1-based, so *)
(* node i is layers[i + 1].  Option<T> is a record with a `some` flag, and *)
(* Result<T> a record with a `tag` ("Ok", "Err") plus "Panic" for a call   *)
(* that unwinds instead of returning.                                      *)
(***************************************************************************)
EXTENDS Integers, Sequences, FiniteSets, TLC

\* ---------------------------------------------------------------- bounds
MaxNodes == 2
MaxEdges == 2

\* ------------------------------------------------------ Option / Result
None == [some |-> FALSE]
Some(v) == [some |-> TRUE, value |-> v]

Ok(v) == [tag |-> "Ok", value |-> v]
Err(message, names) == [tag |-> "Err", msg |-> message, type_names |-> names]
Panic(message) == [tag |-> "Panic", msg |-> message]

U8_MAX == 255
U8_MIN == 0

\* ------------------------------------------------------- element model
Shape(data) == <<Len(data), IF Len(data) = 0 THEN 0 ELSE Len(data[1])>>

\* Image::new taking the declared size on trust.
Image_new_unchecked(data, width, height) ==
    Ok([data |-> data, width |-> width, height |-> height])

Image_new(data, width, height) ==
    IF Shape(data) = <<height, width>>
    THEN Ok([data |-> data, width |-> width, height |-> height])
    ELSE [tag |-> "Err", msg |-> "Unable to create image",
          type_names |-> <<>>,
          data_shape |-> Shape(data), expected_shape |-> <<height, width>>]

\* The newtype wrappers: the nominal type is the tag `type`.
Wrap(type, res) ==
    IF res.tag = "Ok"
    THEN Ok([type |-> type, data |-> res.value.data,
             width |-> res.value.width, height |-> res.value.height])
    ELSE res

BinaryImage_new(data, width, height) == Wrap("BinaryImage", Image_new(data, width, height))
RgbaImage_new(data, width, height) == Wrap("RgbaImage", Image_new(data, width, height))
GrayAlphaImage_new(data, width, height) == Wrap("GrayAlphaImage", Image_new(data, width, height))
GrayImage_new(data, width, height) == Wrap("GrayImage", Image_new(data, width, height))

RGBA_new(r, g, b, a) == <<r, g, b, a>>

\* std::any::type_name / TypeId of a type-erased value.
TypeOf(v) == v.type

\* ------------------------------------------- Convert<RgbaImage, GrayAlphaImage>
\* linear_colors as computed by the closure of layer.rs:54-60 for a channel
\* byte c (index c + 1), in units of 1/10000.
LinearColorTable ==
    <<
       0, 3, 6, 9, 12, 15, 18, 21, 24, 27, 30, 2511, 2551, 2591, 2632, 2673,
       2714, 2756, 2798, 2841, 2884, 2928, 2971, 3015, 3060, 3105, 3150, 3196, 3242, 3288, 3335, 3382,
       3430, 3478, 3526, 3575, 3624, 3674, 3724, 3774, 3825, 3876, 3927, 3979, 4032, 4084, 4137, 4191,
       4245, 4299, 4354, 4409, 4465, 4520, 4577, 4634, 4691, 4748, 4806, 4865, 4923, 4983, 5042, 5102,
       5163, 5224, 5285, 5347, 5409, 5471, 5534, 5598, 5662, 5726, 5790, 5855, 5921, 5987, 6053, 6120,
       6187, 6255, 6323, 6391, 6460, 6530, 6599, 6670, 6740, 6811, 6883, 6955, 7027, 7100, 7173, 7247,
       7321, 7396, 7471, 7546, 7622, 7699, 7776, 7853, 7931, 8009, 8087, 8166, 8246, 8326, 8406, 8487,
       8568, 8650, 8732, 8815, 8898, 8982, 9066, 9150, 9235, 9320, 9406, 9493, 9579, 9667, 9754, 9842,
       9931, 10020, 10110, 10200, 10290, 10381, 10472, 10564, 10657, 10750, 10843, 10937, 11031, 11126, 11221, 11316,
       11412, 11509, 11606, 11704, 11802, 11900, 11999, 12099, 12199, 12299, 12400, 12501, 12603, 12705, 12808, 12912,
       13015, 13120, 13224, 13330, 13435, 13542, 13648, 13756, 13863, 13971, 14080, 14189, 14299, 14409, 14520, 14631,
       14742, 14855, 14967, 15080, 15194, 15308, 15423, 15538, 15653, 15770, 15886, 16003, 16121, 16239, 16358, 16477,
       16596, 16717, 16837, 16958, 17080, 17202, 17325, 17448, 17572, 17696, 17821, 17946, 18072, 18198, 18325, 18452,
       18580, 18708, 18837, 18966, 19096, 19226, 19357, 19489, 19620, 19753, 19886, 20019, 20153, 20288, 20423, 20558,
       20695, 20831, 20968, 21106, 21244, 21383, 21522, 21662, 21802, 21943, 22084, 22226, 22369, 22512, 22655, 22799,
       22944, 23089, 23234, 23381, 23527, 23674, 23822, 23970, 24119, 24269, 24419, 24569, 24720, 24872, 25024, 25176
    >>

LinearColor(c) == LinearColorTable[c + 1]

\* (255.0 * linear_luminance).round() as u8, with the weights in units of
\* 1/10000 and the cast saturating at u8::MAX.
LinearLuminance(pixel) ==
    LET s == 2126 * LinearColor(pixel[1]) + 7152 * LinearColor(pixel[2])
             + 722 * LinearColor(pixel[3])
        q == s \div 100000
        r == s % 100000
        lo == 255 * r + 50000000
        rounded == (255 * q + lo \div 100000) \div 1000
    IN  IF rounded > U8_MAX THEN U8_MAX ELSE rounded

\* The conversion handing (height, width) to GrayAlphaImage::new.
ConvertRgbaGrayAlpha_compute_transposed(input) ==
    GrayAlphaImage_new(
        [r \in DOMAIN input.data |->
            [c \in DOMAIN input.data[r] |->
                <<LinearLuminance(input.data[r][c]), input.data[r][c][4]>>]],
        input.height, input.width)

ConvertRgbaGrayAlpha_compute(input) ==
    GrayAlphaImage_new(
        [r \in DOMAIN input.data |->
            [c \in DOMAIN input.data[r] |->
                <<LinearLuminance(input.data[r][c]), input.data[r][c][4]>>]],
        input.width, input.height)

\* ------------------------------------------------ Convert<BinaryImage, GrayImage>
\* The conversion casting the boolean (`pixel as u8`): true becomes 1.
ConvertBinaryGray_compute_as_u8(input) ==
    GrayImage_new(
        [r \in DOMAIN input.data |->
            [c \in DOMAIN input.data[r] |->
                IF input.data[r][c] THEN 1 ELSE U8_MIN]],
        input.width, input.height)

ConvertBinaryGray_compute(input) ==
    GrayImage_new(
        [r \in DOMAIN input.data |->
            [c \in DOMAIN input.data[r] |->
                IF input.data[r][c] THEN U8_MAX ELSE U8_MIN]],
        input.width, input.height)

\* ------------------------------------------- Threshold<GrayImage, BinaryImage, u8>
\* The comparison taken from the threshold's side (threshold.cmp(pixel)).
Cmp_reversed(a, b) == IF b < a THEN "Less" ELSE IF a = b THEN "Equal" ELSE "Greater"

Cmp(a, b) == IF a < b THEN "Less" ELSE IF a = b THEN "Equal" ELSE "Greater"

\* The threshold counting a pixel equal to the threshold as a match.
Threshold_compute_ge(self, input) ==
    BinaryImage_new(
        [r \in DOMAIN input.data |->
            [c \in DOMAIN input.data[r] |->
                Cmp(input.data[r][c], self.threshold) \in {self.ordering, "Equal"}]],
        input.width, input.height)

Threshold_compute(self, input) ==
    BinaryImage_new(
        [r \in DOMAIN input.data |->
            [c \in DOMAIN input.data[r] |->
                Cmp(input.data[r][c], self.threshold) = self.ordering]],
        input.width, input.height)

\* ------------------------------------------------------------ RgbaImage::open
\* What image::open can find at the path: nothing decodable, or a raster.
Unreadable == [readable |-> FALSE]
Raster(pixels) == [readable |-> TRUE, pixels |-> pixels]

Red == RGBA_new(255, 0, 0, 255)
White == RGBA_new(255, 255, 255, 255)

Clear == RGBA_new(0, 0, 0, 0)

Files == {Unreadable, Raster(<<<<Red>>>>), Raster(<<<<White>>>>)}

RgbaImage_open(file) ==
    IF ~file.readable
    THEN Err("image::open", <<>>)
    ELSE RgbaImage_new(file.pixels, Shape(file.pixels)[2], Shape(file.pixels)[1])

InputFile_compute(file) == RgbaImage_open(file)

\* -------------------------------------------------------- layer constructors
ConvertRgbaGrayAlpha_new ==
    [kind |-> "Convert", A |-> "RgbaImage", B |-> "GrayAlphaImage", output |-> None]

ConvertBinaryGray_new ==
    [kind |-> "Convert", A |-> "BinaryImage", B |-> "GrayImage", output |-> None]

InputFile_new(file_path) ==
    [kind |-> "InputFile", A |-> "RgbaImage", file_path |-> file_path, output |-> None]

Threshold_new(threshold, ordering) ==
    [kind |-> "Threshold", A |-> "GrayImage", B |-> "BinaryImage",
     threshold |-> threshold, ordering |-> ordering, output |-> None]

\* The type of the cached slot `output: Option<_>` of a layer.
OutputType(self) == IF self.kind = "InputFile" THEN self.A ELSE self.B

\* ------------------------------------------------------------ Layer contract
\* self.operation of a Convert, fixed by the constructor.
Convert_operation(self, input) ==
    IF self.A = "RgbaImage"
    THEN ConvertRgbaGrayAlpha_compute(input)
    ELSE ConvertBinaryGray_compute(input)

Computed(res) ==
    IF res.tag = "Ok"
    THEN Ok([output |-> Some(res.value), state_updates |-> None])
    ELSE res

\* SingleInput with the empty slot reported as a failed cast.
SingleInput_empty_as_cast(self, input) ==
    IF Len(input) = 0
    THEN Panic("index out of bounds")
    ELSE IF ~input[1].some \/ TypeOf(input[1].value) # self.A
    THEN Err("Casting failed. Expected input of type", <<self.A>>)
    ELSE Ok(input[1].value)

\* SingleInput with the message naming the type it found.
SingleInput_names_found(self, input) ==
    IF Len(input) = 0
    THEN Panic("index out of bounds")
    ELSE IF ~input[1].some
    THEN Err("Empty input", <<>>)
    ELSE IF TypeOf(input[1].value) # self.A
    THEN Err("Casting failed. Expected input of type", <<TypeOf(input[1].value)>>)
    ELSE Ok(input[1].value)

\* input[0], .context("Empty input")?, downcast_ref::<A>().context(..)?
SingleInput(self, input) ==
    IF Len(input) = 0
    THEN Panic("index out of bounds")
    ELSE IF ~input[1].some
    THEN Err("Empty input", <<>>)
    ELSE IF TypeOf(input[1].value) # self.A
    THEN Err("Casting failed. Expected input of type", <<self.A>>)
    ELSE Ok(input[1].value)

\* Convert's compute refusing a node whose output is already cached.
Convert_Layer_compute_once(self, input) ==
    LET in == SingleInput(self, input)
    IN  IF self.output.some
        THEN Err("Already computed", <<>>)
        ELSE IF in.tag = "Ok" THEN Computed(Convert_operation(self, in.value)) ELSE in

Convert_Layer_compute(self, input) ==
    LET in == SingleInput(self, input)
    IN  IF in.tag = "Ok" THEN Computed(Convert_operation(self, in.value)) ELSE in

\* InputFile's compute waiting for its parents like the other layers.
InputFile_Layer_compute_needs_input(self, input, file) ==
    IF \E k \in DOMAIN input : ~input[k].some
    THEN Err("Empty input", <<>>)
    ELSE Computed(InputFile_compute(file))

InputFile_Layer_compute(self, input, file) == Computed(InputFile_compute(file))

Threshold_Layer_compute(self, input) ==
    LET in == SingleInput(self, input)
    IN  IF in.tag = "Ok" THEN Computed(Threshold_compute(self, in.value)) ELSE in

\* Layer::compute, dispatched on the node behind the Box<dyn InteractiveLayer>.
\* `file` is what the decode collaborator finds during this call.
Layer_compute(self, input, file) ==
    CASE self.kind = "InputFile" -> InputFile_Layer_compute(self, input, file)
      [] self.kind = "Convert" -> Convert_Layer_compute(self, input)
      [] self.kind = "Threshold" -> Threshold_Layer_compute(self, input)

\* Layer::update without the assignment to self.output.
Layer_update_keep(self, output, state_updates) ==
    IF output.some /\ TypeOf(output.value) # OutputType(self)
    THEN [layer |-> self,
          result |-> Err("Casting failed. Expected input of type", <<OutputType(self)>>)]
    ELSE IF state_updates.some
    THEN [layer |-> self, result |-> Panic("not yet implemented")]
    ELSE [layer |-> self, result |-> Ok(<<>>)]

\* Layer::update (the three impls are the same text): the downcast of the new
\* output, then the assignment to self.output, then the state_updates hook.
Layer_update(self, output, state_updates) ==
    IF output.some /\ TypeOf(output.value) # OutputType(self)
    THEN [layer |-> self,
          result |-> Err("Casting failed. Expected input of type", <<OutputType(self)>>)]
    ELSE IF state_updates.some
    THEN [layer |-> [self EXCEPT !.output = output], result |-> Panic("not yet implemented")]
    ELSE [layer |-> [self EXCEPT !.output = output], result |-> Ok(<<>>)]

Layer_output(self) == self.output

\* ------------------------------------------------------------- the layer graph
VARIABLES
    layers,          \* petgraph nodes: the layers, by index + 1
    edges,           \* petgraph edges in insertion order: <<source, target>>
    selected_layer,  \* the host's cursor
    aborted,         \* a call panicked; the program has unwound
    last,            \* the last call: its arguments, the graph and cursor it
                     \* was made on, what the decode collaborator found and
                     \* what the call returned
    add_calls,       \* history: how many add calls have been made
    succeeded        \* history: nodes on which compute_layer has returned Ok

vars == <<layers, edges, selected_layer, aborted, last, add_calls, succeeded>>

node_count == Len(layers)
NodeIndices == 0..(node_count - 1)

Max(a, b) == IF a > b THEN a ELSE b

\* add_node putting the new node first.
add_node_front(nodes, layer) == [nodes |-> <<layer>> \o nodes, index |-> 0]

\* Graph::add_node: the new node goes to the end and its index is returned.
add_node(nodes, layer) == [nodes |-> Append(nodes, layer), index |-> Len(nodes)]

\* add_edge putting each new edge first, renumbering the edges there were.
RECURSIVE add_edges_prepend(_, _, _)
add_edges_prepend(es, pairs, count) ==
    IF pairs = <<>>
    THEN [edges |-> es, panic |-> FALSE]
    ELSE IF Max(Head(pairs)[1], Head(pairs)[2]) >= count
    THEN [edges |-> es, panic |-> TRUE]
    ELSE add_edges_prepend(<<Head(pairs)>> \o es, Tail(pairs), count)

\* Graph::add_edge for each pair in turn; it panics, before touching the
\* graph, when an end point is not a node.
RECURSIVE add_edges(_, _, _)
add_edges(es, pairs, count) ==
    IF pairs = <<>>
    THEN [edges |-> es, panic |-> FALSE]
    ELSE IF Max(Head(pairs)[1], Head(pairs)[2]) >= count
    THEN [edges |-> es, panic |-> TRUE]
    ELSE add_edges(Append(es, Head(pairs)), Tail(pairs), count)

\* neighbors_directed walking the edges oldest first.
neighbors_incoming_oldest_first(es, layer) ==
    LET into == SelectSeq(es, LAMBDA e : e[2] = layer)
    IN  [k \in 1..Len(into) |-> into[k][1]]

\* Graph::neighbors_directed(layer, Incoming): the sources of the edges into
\* `layer`, walking petgraph's per-node edge list, which add_edge extends at
\* its head: the most recently added edge comes first.
RECURSIVE neighbors_incoming(_, _)
neighbors_incoming(es, layer) ==
    IF es = <<>>
    THEN <<>>
    ELSE LET e == es[Len(es)]
             rest == neighbors_incoming(SubSeq(es, 1, Len(es) - 1), layer)
         IN  IF e[2] = layer THEN <<e[1]>> \o rest ELSE rest

Init ==
    /\ layers = <<>>
    /\ edges = <<>>
    /\ selected_layer = 0
    /\ aborted = FALSE
    /\ last = [op |-> "new"]
    /\ add_calls = 0
    /\ succeeded = {}

\* wiring with the children wired like parents, into the new node.
wiring_children_as_parents(new_node, parent_nodes, child_nodes) ==
    [k \in 1..Len(parent_nodes) |-> <<parent_nodes[k], new_node>>]
    \o [k \in 1..Len(child_nodes) |-> <<child_nodes[k], new_node>>]

\* The two loops of add_layer_with_children: the edges asked for, in order.
wiring(new_node, parent_nodes, child_nodes) ==
    [k \in 1..Len(parent_nodes) |-> <<parent_nodes[k], new_node>>]
    \o [k \in 1..Len(child_nodes) |-> <<new_node, child_nodes[k]>>]

\* add_layer_with_children moving the cursor to the node it inserts.
add_layer_as_selecting(op, layer, parent_nodes, child_nodes) ==
    LET added == add_node(layers, layer)
        new_node == added.index
        wired == add_edges(edges, wiring(new_node, parent_nodes, child_nodes),
                           Len(added.nodes))
    IN  /\ ~aborted
        /\ layers' = added.nodes
        /\ edges' = wired.edges
        /\ aborted' = wired.panic
        /\ last' = [op |-> op, layer |-> layer, new_node |-> new_node,
                    parent_nodes |-> parent_nodes, child_nodes |-> child_nodes,
                    layers |-> layers, edges |-> edges,
                    selected_layer |-> selected_layer,
                    result |-> IF wired.panic
                               THEN Panic("Graph::add_edge: node indices out of bounds")
                               ELSE Ok(<<>>)]
        /\ add_calls' = add_calls + 1
        /\ selected_layer' = new_node
        /\ UNCHANGED succeeded

\* add_layer_with_children, under the name `op` it was called by.
add_layer_as(op, layer, parent_nodes, child_nodes) ==
    LET added == add_node(layers, layer)
        new_node == added.index
        wired == add_edges(edges, wiring(new_node, parent_nodes, child_nodes),
                           Len(added.nodes))
    IN  /\ ~aborted
        /\ layers' = added.nodes
        /\ edges' = wired.edges
        /\ aborted' = wired.panic
        /\ last' = [op |-> op, layer |-> layer, new_node |-> new_node,
                    parent_nodes |-> parent_nodes, child_nodes |-> child_nodes,
                    layers |-> layers, edges |-> edges,
                    selected_layer |-> selected_layer,
                    result |-> IF wired.panic
                               THEN Panic("Graph::add_edge: node indices out of bounds")
                               ELSE Ok(<<>>)]
        /\ add_calls' = add_calls + 1
        /\ UNCHANGED <<selected_layer, succeeded>>

add_layer_with_children(layer, parent_nodes, child_nodes) ==
    add_layer_as("add_layer_with_children", layer, parent_nodes, child_nodes)

add_layer(layer, parent_nodes) ==
    add_layer_as("add_layer", layer, parent_nodes, <<>>)

\* The input vector compute_layer gathers for node `layer`.
gather_input(layer) ==
    LET ns == neighbors_incoming(edges, layer)
    IN  [k \in 1..Len(ns) |-> Layer_output(layers[ns[k] + 1])]

\* commit caching the value the node read instead of the one it computed.
commit_caching_input(layer, computed) ==
    IF computed.tag = "Ok"
    THEN LET input == gather_input(layer)
         IN  [layers |-> [layers EXCEPT ![layer + 1].output =
                             IF input = <<>> THEN computed.value.output ELSE input[1]],
              update |-> Ok(<<>>)]
    ELSE [layers |-> layers, update |-> [tag |-> "not called"]]

\* commit with update(None, None) run on a failed compute as well.
commit_clearing(layer, computed) ==
    IF computed.tag = "Ok"
    THEN LET updated == Layer_update(layers[layer + 1], computed.value.output,
                                     computed.value.state_updates)
         IN  [layers |-> [layers EXCEPT ![layer + 1] = updated.layer],
              update |-> updated.result]
    ELSE [layers |-> [layers EXCEPT ![layer + 1] =
                         Layer_update(layers[layer + 1], None, None).layer],
          update |-> [tag |-> "not called"]]

\* commit that also empties the outputs of the nodes fed by `layer`.
commit_invalidating(layer, computed) ==
    IF computed.tag = "Ok"
    THEN LET updated == Layer_update(layers[layer + 1], computed.value.output,
                                     computed.value.state_updates)
         IN  [layers |->
                 [n \in DOMAIN layers |->
                     IF n = layer + 1 THEN updated.layer
                     ELSE IF \E k \in DOMAIN edges : edges[k] = <<layer, n - 1>>
                     THEN [layers[n] EXCEPT !.output = None]
                     ELSE layers[n]],
              update |-> updated.result]
    ELSE [layers |-> layers, update |-> [tag |-> "not called"]]

\* `compute(&input)?` then `update(output, state_changes)`: the nodes after the
\* call, and what update returned if it was reached.
commit(layer, computed) ==
    IF computed.tag = "Ok"
    THEN LET updated == Layer_update(layers[layer + 1], computed.value.output,
                                     computed.value.state_updates)
         IN  [layers |-> [layers EXCEPT ![layer + 1] = updated.layer],
              update |-> updated.result]
    ELSE [layers |-> layers, update |-> [tag |-> "not called"]]

\* returned with the failure of compute swallowed.
returned_swallow(computed, update) == Ok(<<>>)

\* What compute_layer returns: the failure of compute, or Ok(()) whatever
\* update returned (its Result is dropped).
returned(computed, update) ==
    IF computed.tag # "Ok" THEN computed
    ELSE IF update.tag = "Panic" THEN update
    ELSE Ok(<<>>)

compute_layer(layer, file) ==
    LET input == gather_input(layer)
        computed == Layer_compute(layers[layer + 1], input, file)
        committed == commit(layer, computed)
        result == returned(computed, committed.update)
    IN  /\ ~aborted
        /\ layer \in NodeIndices
        /\ layers' = committed.layers
        /\ aborted' = (result.tag = "Panic")
        /\ last' = [op |-> "compute_layer", layer |-> layer, input |-> input,
                    file |-> file,
                    layers |-> layers, edges |-> edges,
                    selected_layer |-> selected_layer,
                    compute |-> computed, update |-> committed.update,
                    result |-> result]
        /\ succeeded' = IF result.tag = "Ok" THEN succeeded \cup {layer} ELSE succeeded
        /\ UNCHANGED <<edges, selected_layer, add_calls>>

\* ------------------------------------------------------------------ the host
Layers ==
    {InputFile_new("Tulips.jpg"), ConvertRgbaGrayAlpha_new, ConvertBinaryGray_new,
     Threshold_new(100, "Greater")}

SeqsUpTo(S, n) == UNION {[1..k -> S] : k \in 0..n}

\* Indices a host can name: the nodes, the node being added, and one past it.
Nameable == 0..(node_count + 1)

AddLayerWithChildren ==
    /\ node_count < MaxNodes
    /\ \E layer \in Layers :
       \E parent_nodes \in SeqsUpTo(Nameable, MaxEdges - Len(edges)) :
       \E child_nodes \in SeqsUpTo(Nameable, MaxEdges - Len(edges) - Len(parent_nodes)) :
          add_layer_with_children(layer, parent_nodes, child_nodes)

AddLayer ==
    /\ node_count < MaxNodes
    /\ \E layer \in Layers :
       \E parent_nodes \in SeqsUpTo(Nameable, MaxEdges - Len(edges)) :
          add_layer(layer, parent_nodes)

\* Only an InputFile consults the decode collaborator; for the other layers
\* what lies at the path is immaterial and one file stands for all.
FilesSeenBy(layer, files) ==
    IF layers[layer + 1].kind = "InputFile" THEN files ELSE {Unreadable}

ComputeLayer ==
    \E layer \in NodeIndices :
    \E file \in FilesSeenBy(layer, Files) : compute_layer(layer, file)

Next == AddLayerWithChildren \/ AddLayer \/ ComputeLayer

Spec == Init /\ [][Next]_vars

\* ------------------------------------------------- the chain of main.rs:17-30
\* source -> Convert RGBA to Gray+Alpha -> Threshold -> Convert Binary to Gray,
\* each layer added with the one before it as its parent, then evaluated once
\* in index order; `?` ends main at the first failure.
MaxSide == 2

ChainLayers ==
    <<InputFile_new("Tulips.jpg"), ConvertRgbaGrayAlpha_new,
      Threshold_new(100, "Greater"), ConvertBinaryGray_new>>

ChainFiles ==
    {Unreadable} \cup
    UNION {{Raster(pixels) : pixels \in [1..h -> [1..w -> {Red, White, Clear}]]} :
           h \in 1..MaxSide, w \in 1..MaxSide}

ChainBuilt == node_count = Len(ChainLayers)

ChainBuild ==
    /\ ~ChainBuilt
    /\ add_layer(ChainLayers[node_count + 1],
                 IF node_count = 0 THEN <<>> ELSE <<node_count - 1>>)

ChainEvaluate ==
    /\ ChainBuilt
    /\ \/ /\ last.op = "add_layer"
          /\ \E file \in ChainFiles : compute_layer(0, file)
       \/ /\ last.op = "compute_layer"
          /\ last.result.tag = "Ok"
          /\ last.layer + 1 < node_count
          /\ \E file \in FilesSeenBy(last.layer + 1, ChainFiles) :
                compute_layer(last.layer + 1, file)

ChainNext == ChainBuild \/ ChainEvaluate

SpecChain == Init /\ [][ChainNext]_vars

\* ================================================================== claims
IsCompute == last.op = "compute_layer"
IsAdd == last.op \in {"add_layer", "add_layer_with_children"}

\* The failure kinds, by the message the code builds.
MissingInput(r) == r.tag = "Err" /\ r.msg = "Empty input"
TypeMismatch(r) == r.tag = "Err" /\ r.msg = "Casting failed. Expected input of type"
DecodeError(r) == r.tag = "Err" /\ r.msg = "image::open"

Range(seq) == {seq[k] : k \in DOMAIN seq}
Count(seq, x) == Cardinality({k \in DOMAIN seq : seq[k] = x})

\* Of the last compute_layer call: the node as it was, and as it is.
Before == last.layers[last.layer + 1]
After == layers[last.layer + 1]

\* The sources of the edges into `layer`, as a set and in insertion order.
Parents(es, layer) == {es[k][1] : k \in {j \in DOMAIN es : es[j][2] = layer}}
IncomingInOrder(es, layer) ==
    LET into == SelectSeq(es, LAMBDA e : e[2] = layer)
    IN  [k \in 1..Len(into) |-> into[k][1]]

\* C1: when the node's compute fails (missing input, type mismatch, decode
\* error), compute_layer returns that very failure and the node's cached
\* output is what it was before the call.
FailedComputeLeavesOutput ==
    (IsCompute /\ last.compute.tag = "Err") =>
        /\ last.result = last.compute
        /\ MissingInput(last.result) \/ TypeMismatch(last.result) \/ DecodeError(last.result)
        /\ After.output = Before.output

\* A node holding Set(v) whose evaluation failed.
FailedComputeOnSetNode ==
    IsCompute /\ last.compute.tag = "Err" /\ Before.output.some

\* C2: compute_layer returns Ok exactly when compute and update both returned
\* Ok, and then the cached output is the value compute produced, whatever was
\* cached before.
SuccessMeansCommitted ==
    IsCompute =>
        /\ (last.result.tag = "Ok") <=> (last.compute.tag = "Ok" /\ last.update.tag = "Ok")
        /\ last.result.tag = "Ok" =>
              /\ After.output.some
              /\ After.output = last.compute.value.output

\* A successful call that replaced Set(old) by a different Set(new).
ReplacedOldValue ==
    /\ IsCompute /\ last.result.tag = "Ok"
    /\ Before.output.some /\ After.output # Before.output

\* C3 as claimed: compute sees the parents' cached outputs in the order their
\* edges were added, inputs[0] being the first-wired parent.
InputsInInsertionOrder ==
    IsCompute =>
        LET ps == IncomingInOrder(last.edges, last.layer)
        IN  last.input = [k \in 1..Len(ps) |-> last.layers[ps[k] + 1].output]

\* C3 amended: compute sees the parents' cached outputs in the reverse of the
\* order their edges were added, inputs[0] being the last-wired parent.
InputsInReverseInsertionOrder ==
    IsCompute =>
        LET ps == IncomingInOrder(last.edges, last.layer)
            n == Len(ps)
        IN  last.input = [k \in 1..n |-> last.layers[ps[n + 1 - k] + 1].output]

\* A node evaluated with two incoming edges whose sources differ in output.
TwoDistinctInputs ==
    IsCompute /\ Len(last.input) >= 2 /\ last.input[1] # last.input[2]

\* C4 as claimed: an add call returns the index of the inserted node.
AddReturnsIndex ==
    (IsAdd /\ last.result.tag = "Ok") => last.result.value = <<last.new_node>>

\* C4 amended: an add call returns no value; the node it inserts gets as its
\* index the number of add calls made before it (0, 1, 2, ... in call order),
\* and that index refers to the inserted layer.
AddAssignsNextIndex ==
    IsAdd =>
        /\ last.result.tag = "Ok" => last.result.value = <<>>
        /\ last.new_node = add_calls - 1
        /\ layers[last.new_node + 1] = last.layer

\* An add call on a graph that already has a node.
AddedSecondNode == IsAdd /\ last.result.tag = "Ok" /\ last.new_node >= 1

\* C5: compute_layer on an existing node returns (Ok or a failure value);
\* it does not panic.
ComputeNeverPanics == IsCompute => last.result.tag # "Panic"

\* A Convert or Threshold node evaluated out of dependency order: it has
\* parents and none of them has ever computed.
EvaluatedBeforeParents ==
    /\ IsCompute
    /\ Before.kind \in {"Convert", "Threshold"}
    /\ Parents(last.edges, last.layer) # {}
    /\ \A p \in Parents(last.edges, last.layer) : ~last.layers[p + 1].output.some

\* C6: evaluating a Convert or Threshold node whose parents have never
\* computed fails with MissingInput, without a panic, and leaves every node's
\* cached output unchanged.
OutOfOrderIsMissingInput ==
    EvaluatedBeforeParents => (MissingInput(last.result) /\ layers = last.layers)

\* Such a call on a node fed by another node.
EvaluatedBeforeOtherParent ==
    EvaluatedBeforeParents /\ Parents(last.edges, last.layer) # {last.layer}

\* A Convert or Threshold node expecting type A evaluated while all of its
\* parents cache a value of another type.
WiredToWrongType ==
    /\ IsCompute
    /\ Before.kind \in {"Convert", "Threshold"}
    /\ Parents(last.edges, last.layer) # {}
    /\ \A p \in Parents(last.edges, last.layer) :
          /\ last.layers[p + 1].output.some
          /\ TypeOf(last.layers[p + 1].output.value) # Before.A

\* C7 as claimed: a node expecting A wired to a parent caching a B fails with
\* a TypeMismatch naming both the expected type A and the parent's actual
\* type B; no cached output changes.
TypeMismatchNamesBothTypes ==
    WiredToWrongType =>
        /\ TypeMismatch(last.result)
        /\ Before.A \in Range(last.result.type_names)
        /\ \E p \in Parents(last.edges, last.layer) :
              TypeOf(last.layers[p + 1].output.value) \in Range(last.result.type_names)
        /\ layers = last.layers

\* C7 amended: a node expecting A wired to a parent caching a B fails with a
\* TypeMismatch naming the expected type A only; no cached output changes.
TypeMismatchNamesExpectedType ==
    WiredToWrongType =>
        /\ TypeMismatch(last.result)
        /\ last.result.type_names = <<Before.A>>
        /\ layers = last.layers

\* Such a call on a node fed by another node.
WiredToOtherWrongType ==
    WiredToWrongType /\ Parents(last.edges, last.layer) # {last.layer}

\* C8: in the chain of main.rs, with a file that decodes, every compute_layer
\* call of the pass 0, 1, 2, 3 returns Ok and node 3 ends with an output.
ChainEvaluates ==
    (ChainBuilt /\ IsCompute /\ ~DecodeError(last.result)) =>
        /\ last.result.tag = "Ok"
        /\ last.layer = node_count - 1 => layers[node_count].output.some

\* C9: a node's output is empty exactly when no compute_layer call on it has
\* returned Ok.
OutputSetIffSucceeded ==
    \A n \in NodeIndices : layers[n + 1].output.some <=> n \in succeeded

\* A node that succeeded earlier and has just failed.
FailedAfterSuccess ==
    IsCompute /\ last.result.tag = "Err" /\ last.layer \in succeeded

\* An add call whose listed parents and children are all nodes of the graph
\* (the node being inserted included), so that each asked-for edge can exist.
ValidWiring ==
    /\ IsAdd
    /\ \A k \in DOMAIN last.parent_nodes : last.parent_nodes[k] <= last.new_node
    /\ \A k \in DOMAIN last.child_nodes : last.child_nodes[k] <= last.new_node

\* C10: an add call adds one edge parent -> new per listed parent, one edge
\* new -> child per listed child and no other edge, keeps the nodes, edges and
\* cached outputs there were, and leaves the new node Unset.
AddWiresExactlyTheListed ==
    ValidWiring =>
        /\ last.result.tag = "Ok"
        /\ layers = Append(last.layers, last.layer)
        /\ ~layers[last.new_node + 1].output.some
        /\ SubSeq(edges, 1, Len(last.edges)) = last.edges
        /\ \A a, b \in 0..last.new_node :
              Count(edges, <<a, b>>) =
                  Count(last.edges, <<a, b>>)
                  + (IF b = last.new_node THEN Count(last.parent_nodes, a) ELSE 0)
                  + (IF a = last.new_node THEN Count(last.child_nodes, b) ELSE 0)

\* An add call with a parent and a child on a graph holding a cached output.
WiredParentAndChild ==
    /\ ValidWiring
    /\ last.parent_nodes # <<>> /\ last.child_nodes # <<>>
    /\ \E n \in DOMAIN last.layers : last.layers[n].output.some

\* The fixed configuration of a layer: everything but its cached output.
Config(layer) == [layer EXCEPT !.output = None]

\* C11: no call removes or renumbers a node or an edge: after every call each
\* index there was refers to the same layer and each edge there was is still
\* there, at its place.
NothingRemovedOrRenumbered ==
    (IsAdd \/ IsCompute) =>
        /\ Len(layers) >= Len(last.layers)
        /\ \A n \in DOMAIN last.layers : Config(layers[n]) = Config(last.layers[n])
        /\ Len(edges) >= Len(last.edges)
        /\ SubSeq(edges, 1, Len(last.edges)) = last.edges

\* An add call that wired an edge on a graph that had a node and an edge.
AddedToWiredGraph ==
    /\ IsAdd
    /\ last.layers # <<>> /\ last.edges # <<>>
    /\ Len(edges) > Len(last.edges)

\* C18: evaluating a source-from-file node depends on the decode collaborator
\* alone: whatever its parents, it returns Ok and caches the decoded RGBA
\* image when decode succeeds, and returns DecodeError with every cached
\* output unchanged when decode fails.
SourceDependsOnDecodeOnly ==
    (IsCompute /\ Before.kind = "InputFile") =>
        IF last.file.readable
        THEN /\ last.result.tag = "Ok"
             /\ After.output.some
             /\ After.output.value.type = "RgbaImage"
             /\ After.output.value.data = last.file.pixels
        ELSE /\ DecodeError(last.result)
             /\ layers = last.layers

\* A source node with an Unset parent evaluated on a file that decodes.
SourceEvaluatedWithUnsetParent ==
    /\ IsCompute /\ Before.kind = "InputFile"
    /\ last.file.readable
    /\ \E k \in DOMAIN last.input : ~last.input[k].some

\* C19: no call moves the selected_layer cursor, which stays where new() put
\* it, so evaluation has no other value of it to depend on.
CursorNeverMoves ==
    /\ selected_layer = 0
    /\ (IsAdd \/ IsCompute) => selected_layer = last.selected_layer

\* A node other than the selected one has been added and evaluated.
EvaluatedUnselectedNode ==
    IsCompute /\ last.result.tag = "Ok" /\ last.layer # selected_layer

\* C20: compute_layer(i) changes at most the cached output of node i: the
\* other nodes, the configuration of node i, the number of nodes and the
\* edges are what they were.
ComputeTouchesOnlyItsNode ==
    IsCompute =>
        /\ edges = last.edges
        /\ Len(layers) = Len(last.layers)
        /\ \A n \in DOMAIN layers :
              IF n = last.layer + 1
              THEN Config(layers[n]) = Config(last.layers[n])
              ELSE layers[n] = last.layers[n]

\* A node re-evaluated to a new value while a node it feeds holds an output.
RecomputedParentOfSetChild ==
    /\ IsCompute /\ last.result.tag = "Ok"
    /\ After.output # Before.output
    /\ \E n \in NodeIndices :
          /\ n # last.layer
          /\ last.layer \in Parents(edges, n)
          /\ layers[n + 1].output.some

\* ------------------------------------------------ the primitives, applied directly
\* Image::new, the typed wrappers' new and each primitive's compute, applied
\* once to arguments drawn at the start; the graph stays empty.
Arrays(S) == UNION {[1..h -> [1..w -> S]] : h \in 1..MaxSide, w \in 1..MaxSide}

Declared == 0..(MaxSide + 1)

ImageTypes == {"Image", "BinaryImage", "RgbaImage", "GrayAlphaImage", "GrayImage"}

Elements(type) ==
    CASE type = "Image" -> {0}
      [] type = "BinaryImage" -> {TRUE, FALSE}
      [] type = "RgbaImage" -> {Red, Clear}
      [] type = "GrayAlphaImage" -> {<<U8_MIN, U8_MIN>>, <<U8_MAX, U8_MAX>>}
      [] type = "GrayImage" -> {U8_MIN, U8_MAX}

New(type, data, width, height) ==
    CASE type = "Image" -> Image_new(data, width, height)
      [] type = "BinaryImage" -> BinaryImage_new(data, width, height)
      [] type = "RgbaImage" -> RgbaImage_new(data, width, height)
      [] type = "GrayAlphaImage" -> GrayAlphaImage_new(data, width, height)
      [] type = "GrayImage" -> GrayImage_new(data, width, height)

\* The images a constructor accepts: the declared size is the data's.
Images(type, S) == {New(type, data, Shape(data)[2], Shape(data)[1]).value : data \in Arrays(S)}

GrayLevels == {U8_MIN, 128, U8_MAX}

Orderings == {"Less", "Equal", "Greater"}

Thresholds == {Threshold_new(threshold, ordering) : threshold \in {100, 128}, ordering \in Orderings}

NewArguments(type) ==
    {[op |-> "arguments", fn |-> "new", type |-> type,
      data |-> data, width |-> width, height |-> height] :
     data \in Arrays(Elements(type)), width \in Declared, height \in Declared}

ThresholdArguments ==
    {[op |-> "arguments", fn |-> "Threshold::compute", self |-> self, input |-> input] :
     self \in Thresholds, input \in Images("GrayImage", GrayLevels)}

ConvertBinaryGrayArguments ==
    {[op |-> "arguments", fn |-> "Convert<BinaryImage, GrayImage>::compute", input |-> input] :
     input \in Images("BinaryImage", {TRUE, FALSE})}

ThresholdThenConvertArguments ==
    {[op |-> "arguments", fn |-> "Threshold::compute, Convert<BinaryImage, GrayImage>::compute",
      self |-> Threshold_new(128, "Greater"), input |-> input] :
     input \in Images("GrayImage", GrayLevels)}

ConvertRgbaGrayAlphaArguments ==
    {[op |-> "arguments", fn |-> "Convert<RgbaImage, GrayAlphaImage>::compute", input |-> input] :
     input \in Images("RgbaImage", {Red, White, Clear})}

InitPrimitives ==
    /\ layers = <<>>
    /\ edges = <<>>
    /\ selected_layer = 0
    /\ aborted = FALSE
    /\ add_calls = 0
    /\ succeeded = {}
    /\ \/ \E type \in ImageTypes : last \in NewArguments(type)
       \/ last \in ThresholdArguments
       \/ last \in ConvertBinaryGrayArguments
       \/ last \in ThresholdThenConvertArguments
       \/ last \in ConvertRgbaGrayAlphaArguments

Pending(fn) == last.op = "arguments" /\ last.fn = fn

ImageNew ==
    /\ Pending("new")
    /\ last' = [op |-> "new", type |-> last.type, data |-> last.data,
                width |-> last.width, height |-> last.height,
                result |-> New(last.type, last.data, last.width, last.height)]
    /\ UNCHANGED <<layers, edges, selected_layer, aborted, add_calls, succeeded>>

ThresholdCompute ==
    /\ Pending("Threshold::compute")
    /\ last' = [op |-> "Threshold::compute", self |-> last.self, input |-> last.input,
                result |-> Threshold_compute(last.self, last.input)]
    /\ UNCHANGED <<layers, edges, selected_layer, aborted, add_calls, succeeded>>

ConvertBinaryGrayCompute ==
    /\ Pending("Convert<BinaryImage, GrayImage>::compute")
    /\ last' = [op |-> "Convert<BinaryImage, GrayImage>::compute", input |-> last.input,
                result |-> ConvertBinaryGray_compute(last.input)]
    /\ UNCHANGED <<layers, edges, selected_layer, aborted, add_calls, succeeded>>

ThresholdThenConvert ==
    /\ Pending("Threshold::compute, Convert<BinaryImage, GrayImage>::compute")
    /\ LET binary == Threshold_compute(last.self, last.input)
       IN  last' = [op |-> "Threshold::compute, Convert<BinaryImage, GrayImage>::compute",
                    self |-> last.self, input |-> last.input,
                    result |-> IF binary.tag = "Ok"
                               THEN ConvertBinaryGray_compute(binary.value)
                               ELSE binary]
    /\ UNCHANGED <<layers, edges, selected_layer, aborted, add_calls, succeeded>>

ConvertRgbaGrayAlphaCompute ==
    /\ Pending("Convert<RgbaImage, GrayAlphaImage>::compute")
    /\ last' = [op |-> "Convert<RgbaImage, GrayAlphaImage>::compute", input |-> last.input,
                result |-> ConvertRgbaGrayAlpha_compute(last.input)]
    /\ UNCHANGED <<layers, edges, selected_layer, aborted, add_calls, succeeded>>

NextPrimitives ==
    \/ ImageNew
    \/ ThresholdCompute
    \/ ConvertBinaryGrayCompute
    \/ ThresholdThenConvert
    \/ ConvertRgbaGrayAlphaCompute

SpecPrimitives == InitPrimitives /\ [][NextPrimitives]_vars

\* ------------------------------------------------------- claims on the primitives
Applied(fn) == last.op = fn

Pixels(image) == {image.data[r][c] : r \in DOMAIN image.data, c \in 1..image.width}

\* C12: Image::new and the typed wrappers' new accept data exactly when
\* its shape is (height, width), rows first; otherwise they fail with an
\* error reporting the shape found and the shape expected.
ShapeCheckedRowsFirst ==
    Applied("new") =>
        LET rows == Len(last.data)
            columns == Len(last.data[1])
        IN  IF rows = last.height /\ columns = last.width
            THEN /\ last.result.tag = "Ok"
                 /\ last.result.value.data = last.data
                 /\ last.result.value.width = last.width
                 /\ last.result.value.height = last.height
            ELSE /\ last.result.tag = "Err"
                 /\ last.result.msg = "Unable to create image"
                 /\ last.result.data_shape = <<rows, columns>>
                 /\ last.result.expected_shape = <<last.height, last.width>>

TransposedSizeRejected ==
    /\ Applied("new")
    /\ last.type = "GrayImage"
    /\ Len(last.data) = last.width
    /\ Len(last.data[1]) = last.height
    /\ last.width # last.height
    /\ last.result.tag = "Err"

\* C13: Threshold yields a binary image of the same size whose element is
\* true exactly where the pixel compares to the threshold as configured:
\* below it for Less, equal to it for Equal, above it for Greater.
ThresholdMarksMatchingPixels ==
    Applied("Threshold::compute") =>
        /\ last.result.tag = "Ok"
        /\ last.result.value.type = "BinaryImage"
        /\ last.result.value.width = last.input.width
        /\ last.result.value.height = last.input.height
        /\ DOMAIN last.result.value.data = DOMAIN last.input.data
        /\ \A r \in DOMAIN last.input.data :
            /\ DOMAIN last.result.value.data[r] = DOMAIN last.input.data[r]
            /\ \A c \in DOMAIN last.input.data[r] :
                LET pixel == last.input.data[r][c]
                IN  last.result.value.data[r][c] =
                        CASE last.self.ordering = "Less" -> pixel < last.self.threshold
                          [] last.self.ordering = "Equal" -> pixel = last.self.threshold
                          [] last.self.ordering = "Greater" -> pixel > last.self.threshold

ThresholdSplitAtEqualPixel ==
    /\ Applied("Threshold::compute")
    /\ last.self.ordering = "Greater"
    /\ last.self.threshold \in Pixels(last.input)
    /\ last.result.tag = "Ok"
    /\ Pixels(last.result.value) = {TRUE, FALSE}

\* C14: Convert<BinaryImage, GrayImage> maps true to 255 and false to 0,
\* element by element.
TrueIsWhiteFalseIsBlack ==
    Applied("Convert<BinaryImage, GrayImage>::compute") =>
        /\ last.result.tag = "Ok"
        /\ last.result.value.type = "GrayImage"
        /\ last.result.value.width = last.input.width
        /\ last.result.value.height = last.input.height
        /\ DOMAIN last.result.value.data = DOMAIN last.input.data
        /\ \A r \in DOMAIN last.input.data :
            /\ DOMAIN last.result.value.data[r] = DOMAIN last.input.data[r]
            /\ \A c \in DOMAIN last.input.data[r] :
                /\ last.input.data[r][c] => last.result.value.data[r][c] = 255
                /\ ~last.input.data[r][c] => last.result.value.data[r][c] = 0

ConvertedBothValues ==
    /\ Applied("Convert<BinaryImage, GrayImage>::compute")
    /\ Pixels(last.input) = {TRUE, FALSE}
    /\ last.result.tag = "Ok"

\* C15: on a gray image whose pixels are all 0 or 255, Threshold(128,
\* Greater) followed by Convert<BinaryImage, GrayImage> gives the image back.
BlackAndWhiteRoundTrips ==
    (/\ Applied("Threshold::compute, Convert<BinaryImage, GrayImage>::compute")
     /\ Pixels(last.input) \subseteq {0, 255}) =>
        /\ last.result.tag = "Ok"
        /\ last.result.value = last.input

RoundTrippedBlackAndWhite ==
    /\ Applied("Threshold::compute, Convert<BinaryImage, GrayImage>::compute")
    /\ Pixels(last.input) = {0, 255}
    /\ last.result.tag = "Ok"

\* The sRGB linearisation as the formula the conversion cites has it, over
\* c / 255: c / 12.92 up to 0.04045, ((c + 0.055) / 1.055)^2.4 above,
\* scaled by 10000 and rounded.
DocumentedLinearColorTable ==
    <<
       0, 3, 6, 9, 12, 15, 18, 21, 24, 27, 30, 33, 37, 40, 44, 48,
       52, 56, 60, 65, 70, 75, 80, 86, 91, 97, 103, 110, 116, 123, 130, 137,
       144, 152, 160, 168, 176, 185, 194, 203, 212, 222, 232, 242, 252, 262, 273, 284,
       296, 307, 319, 331, 343, 356, 369, 382, 395, 409, 423, 437, 452, 467, 482, 497,
       513, 529, 545, 561, 578, 595, 612, 630, 648, 666, 685, 704, 723, 742, 762, 782,
       802, 823, 844, 865, 887, 908, 931, 953, 976, 999, 1022, 1046, 1070, 1095, 1119, 1144,
       1170, 1195, 1221, 1248, 1274, 1301, 1329, 1356, 1384, 1413, 1441, 1470, 1500, 1529, 1559, 1590,
       1620, 1651, 1683, 1714, 1746, 1779, 1812, 1845, 1878, 1912, 1946, 1981, 2016, 2051, 2086, 2122,
       2159, 2195, 2232, 2270, 2307, 2346, 2384, 2423, 2462, 2502, 2542, 2582, 2623, 2664, 2705, 2747,
       2789, 2831, 2874, 2918, 2961, 3005, 3050, 3095, 3140, 3185, 3231, 3278, 3325, 3372, 3419, 3467,
       3515, 3564, 3613, 3663, 3712, 3763, 3813, 3864, 3916, 3968, 4020, 4072, 4125, 4179, 4233, 4287,
       4342, 4397, 4452, 4508, 4564, 4621, 4678, 4735, 4793, 4851, 4910, 4969, 5029, 5089, 5149, 5210,
       5271, 5333, 5395, 5457, 5520, 5583, 5647, 5711, 5776, 5841, 5906, 5972, 6038, 6105, 6172, 6240,
       6308, 6376, 6445, 6514, 6584, 6654, 6724, 6795, 6867, 6939, 7011, 7084, 7157, 7231, 7305, 7379,
       7454, 7529, 7605, 7682, 7758, 7835, 7913, 7991, 8070, 8148, 8228, 8308, 8388, 8469, 8550, 8632,
       8714, 8796, 8879, 8963, 9047, 9131, 9216, 9301, 9387, 9473, 9560, 9647, 9734, 9823, 9911, 10000
    >>

DocumentedLuminance(pixel) ==
    LET s == 2126 * DocumentedLinearColorTable[pixel[1] + 1]
             + 7152 * DocumentedLinearColorTable[pixel[2] + 1]
             + 722 * DocumentedLinearColorTable[pixel[3] + 1]
        q == s \div 100000
        r == s % 100000
        lo == 255 * r + 50000000
        rounded == (255 * q + lo \div 100000) \div 1000
    IN  IF rounded > U8_MAX THEN U8_MAX ELSE rounded

\* C16: Convert<RgbaImage, GrayAlphaImage> gives every pixel the relative
\* luminance 0.2126 R + 0.7152 G + 0.0722 B of its linearised sRGB
\* channels, scaled to 0..255 and rounded.
LuminanceByDocumentedFormula ==
    Applied("Convert<RgbaImage, GrayAlphaImage>::compute") =>
        /\ last.result.tag = "Ok"
        /\ \A r \in DOMAIN last.input.data : \A c \in DOMAIN last.input.data[r] :
            last.result.value.data[r][c][1] = DocumentedLuminance(last.input.data[r][c])

\* C17: Threshold and both conversions keep the width and the height of
\* their input, and the conversion to gray-alpha copies every pixel's alpha.
SizeAndAlphaPreserved ==
    (\/ Applied("Threshold::compute")
     \/ Applied("Convert<BinaryImage, GrayImage>::compute")
     \/ Applied("Convert<RgbaImage, GrayAlphaImage>::compute")) =>
        /\ last.result.tag = "Ok"
        /\ last.result.value.width = last.input.width
        /\ last.result.value.height = last.input.height
        /\ Shape(last.result.value.data) = Shape(last.input.data)
        /\ Applied("Convert<RgbaImage, GrayAlphaImage>::compute") =>
            \A r \in DOMAIN last.input.data : \A c \in DOMAIN last.input.data[r] :
                last.result.value.data[r][c][2] = last.input.data[r][c][4]

ConvertedOblongMixedAlpha ==
    /\ Applied("Convert<RgbaImage, GrayAlphaImage>::compute")
    /\ last.input.width # last.input.height
    /\ {pixel[4] : pixel \in Pixels(last.input)} = {0, 255}
    /\ last.result.tag = "Ok"

\* ------------------------------------------------- claims on the graph, continued
\* A graph is acyclic when every non-empty set of its nodes has a member
\* that no edge enters from within the set.
Acyclic(es, count) ==
    \A S \in SUBSET (0..(count - 1)) :
        S # {} => \E n \in S : \A k \in DOMAIN es : ~(es[k][2] = n /\ es[k][1] \in S)

\* The last call was an add whose listed indices were nodes when it was made.
ListedAreNodes ==
    /\ IsAdd
    /\ \A k \in DOMAIN last.parent_nodes : last.parent_nodes[k] < Len(last.layers)
    /\ \A k \in DOMAIN last.child_nodes : last.child_nodes[k] < Len(last.layers)

\* C21: add calls whose parent and child indices are nodes of the graph
\* keep the graph acyclic. Stated as the step from an acyclic graph: an
\* acyclic graph was itself built by such calls only, since edges are never
\* removed and an index past the nodes either leaves a self-loop or panics.
AddsKeepGraphAcyclic ==
    (ListedAreNodes /\ Acyclic(last.edges, Len(last.layers))) => Acyclic(edges, node_count)

\* The output type each kind of node declares.
DeclaredOutput(layer) ==
    CASE layer.kind = "InputFile" -> "RgbaImage"
      [] layer.kind = "Threshold" -> "BinaryImage"
      [] layer.kind = "Convert" /\ layer.A = "RgbaImage" -> "GrayAlphaImage"
      [] layer.kind = "Convert" /\ layer.A = "BinaryImage" -> "GrayImage"

\* C22: every node's cached output is empty or a whole image of the type
\* the node declares, however the node is wired and whatever was evaluated.
CachedOutputHasDeclaredType ==
    \A n \in DOMAIN layers :
        layers[n].output.some =>
            /\ layers[n].output.value.type = DeclaredOutput(layers[n])
            /\ Len(layers[n].output.value.data) = layers[n].output.value.height
            /\ \A r \in DOMAIN layers[n].output.value.data :
                Len(layers[n].output.value.data[r]) = layers[n].output.value.width

ConvertCachedBesideSource ==
    \E n, m \in DOMAIN layers :
        /\ layers[n].kind = "Convert"
        /\ layers[n].output.some
        /\ layers[m].kind = "InputFile"
        /\ layers[m].output.some
        /\ Cardinality(Parents(edges, n - 1)) = 2

\* C23: compute_layer called again on the same Convert or Threshold node,
\* with no call in between, returns what the first call returned and leaves
\* the graph as the first call left it.
ComputeTwiceIsComputeOnce ==
    [][(/\ IsCompute
        /\ layers[last.layer + 1].kind \in {"Convert", "Threshold"}
        /\ last'.op = "compute_layer"
        /\ last'.layer = last.layer) =>
            (/\ last'.result = last.result
             /\ layers' = layers
             /\ edges' = edges)]_vars

RecomputedCachedConvert ==
    /\ IsCompute
    /\ Before.kind = "Convert"
    /\ Before.output.some
    /\ last.layer \in succeeded
    /\ last.result.tag = "Ok"
    /\ layers = last.layers

\* C24: an add call naming an index that is not a node leaves the graph as
\* it was: no node inserted, no edge added.
RejectedAddLeavesGraph ==
    (IsAdd /\ last.result.tag = "Panic") =>
        /\ layers = last.layers
        /\ edges = last.edges
====
